---------------------------- MODULE Spec2Model ----------------------------
(***************************************************************************)
(* Latent-imagination training core: the contrastive training step of      *)
(* TemporalLatentDistanceReward (src/src/model/achiever_reward.py), the    *)
(* imagination rollout and target-critic sync of Explorer                  *)
(* (src/src/model/explorer.py) and the learning loop of the driver         *)
(* (src/src/train.py).                                                     *)
(*                                                                         *)
(* Each component has its own specification over its own variables; the    *)
(* variables of the other components stay at their initial values.         *)
(***************************************************************************)
EXTENDS Integers, Sequences, FiniteSets

(***************************************************************************)
(* Bounds of the explored configurations.                                  *)
(***************************************************************************)
MaxHorizon == 2
MaxBatchSize == 3
MaxBatchLength == 2
MaxPositives == 2
MaxImagineHorizon == 2
MaxParam == 1
MaxDistance == 1
MaxFreq == 2
MaxSteps == 4

\* neg_sampling_factor values, as exact fractions num/den (0, 0.5, 1.0, 1.5);
\* they are dyadic, so the float product of line 78 is the exact product.
Factors == { [num |-> 0, den |-> 1], [num |-> 1, den |-> 2],
             [num |-> 1, den |-> 1], [num |-> 3, den |-> 2] }

VARIABLES
    \* ---- TemporalLatentDistanceReward.train ----
    tcfg,             \* the call's arguments: horison_length, batch_size,
                      \* batch_length, num_positives, neg_sampling_factor
    tpc,              \* position in train()
    current_idxs,     \* line 68: the enumerated population, cur rows
    goal_idxs,        \* line 68: the enumerated population, goal rows
    idx,              \* line 69: indices drawn so far by np.random.choice (1-based)
    current_idx,      \* line 70: rows (time, batch) of the positive pairs
    goal_idx,         \* line 70
    target_distance,  \* lines 74 / 83: the regression targets, as fractions
    loss,             \* lines 76 / 85: number of rows of each mse term added so far
    num_negatives,    \* line 78
    neg_i,            \* line 62: rows of the negative arrays already fixed
    neg_cur,          \* cur_idxs[neg_i - 1]
    neg_goal,         \* goal_idxs[neg_i - 1]
    terr,             \* where an exception was raised ("none" if none)
    \* ---- Explorer ----
    actor,            \* parameters of self.actor
    critic,           \* parameters of self.critic (state_dict, one value per entry)
    target_critic,    \* parameters of self.target_critic
    epc,              \* position in Explorer.train ("idle" between calls)
    horison_length,   \* argument of the running Explorer.train call
    init_zs, init_hs, \* arguments of the running Explorer.train call
    zs, hs,           \* lines 82-83, 94: the current latent state
    t,                \* line 90: loop variable
    actions,          \* line 91
    action_log_probs, \* line 91
    action_entropys,  \* line 91
    imagined_zs,      \* line 85
    imagined_hs,      \* line 86
    imagined_action_log_probs,  \* line 87
    imagined_action_entropys,   \* line 88
    events,           \* the calls of the actor and of world_model.imagine and the
                      \* stores into the trajectory, in program order
    \* ---- TemporalLatentDistanceReward.compute_reward ----
    state2emb,          \* self.state2emb: (z, h) -> mean of the embedding
    distance_estimator, \* self.distance_estimator: (emb, emb) -> distance
    reward_call,        \* the reward call being returned: arguments and value
    \* ---- main (train.py) ----
    dcfg,             \* cfg: expl_episode_freq, update_freq, eval_episode_freq and
                      \* the two slow_critic_update settings
    dpc,              \* position in the learning loop
    step,             \* line 46
    episodes,         \* line 44
    goal,             \* line 43
    done,             \* line 54
    metrics,          \* line 60: whether metrics is bound
    agent_call,       \* the last call of lexa.agent: call site, mode, goal
    trained,          \* whether lexa.train ran in the current iteration
    explorer_synced,  \* whether lexa.explorer.update_critic ran in the current iteration
    achiever_synced   \* whether lexa.achiever.update_critic ran in the current iteration

trainVars == << tcfg, tpc, current_idxs, goal_idxs, idx, current_idx, goal_idx, target_distance, loss,
                num_negatives, neg_i, neg_cur, neg_goal, terr >>

paramVars == << actor, critic, target_critic >>

rolloutVars == << epc, horison_length, init_zs, init_hs, zs, hs, t, actions,
                  action_log_probs, action_entropys, imagined_zs, imagined_hs,
                  imagined_action_log_probs, imagined_action_entropys, events >>

explorerVars == << paramVars, rolloutVars >>

rewardVars == << state2emb, distance_estimator, reward_call >>

driverVars == << dcfg, dpc, step, episodes, goal, done, metrics, agent_call,
                 trained, explorer_synced, achiever_synced >>

vars == << trainVars, explorerVars, rewardVars, driverVars >>

(***************************************************************************)
(* Fractions.                                                              *)
(***************************************************************************)
Frac(n, d) == [num |-> n, den |-> d]
FracLeq(a, b) == a.num * b.den <= b.num * a.den
One == Frac(1, 1)
Zero == Frac(0, 1)

NoRow == << -1, -1 >>

(***************************************************************************)
(* get_future_goal_idxs (lines 49-57): all (cur, goal) rows with           *)
(* goal time >= cur time, for every batch index, in the order the loops    *)
(* append them.  A row is <<time, batch>>.                                 *)
(***************************************************************************)
\* np.concatenate([np.ones((bs,1))*time, np.arange(bs).reshape(-1,1)], axis=-1)
RowsAt(time, bs) == [b \in 1..bs |-> << time, b - 1 >>]

\* a goal loop that starts at 0 instead of cur_idx
GoalRangeStartZero(cur_idx) == 0

\* first value of range(cur_idx, seq_len)
GoalRangeStart(cur_idx) == cur_idx

RECURSIVE GoalLoop(_, _, _, _, _)
GoalLoop(cur, goal_time, seq_len, bs, acc) ==
    IF goal_time >= seq_len THEN acc
    ELSE GoalLoop(cur, goal_time + 1, seq_len, bs,
                  [cur |-> acc.cur \o RowsAt(cur, bs),
                   goal |-> acc.goal \o RowsAt(goal_time, bs)])

RECURSIVE CurLoop(_, _, _, _)
CurLoop(cur, seq_len, bs, acc) ==
    IF cur >= seq_len THEN acc
    ELSE CurLoop(cur + 1, seq_len, bs,
                 GoalLoop(cur, GoalRangeStart(cur), seq_len, bs, acc))

get_future_goal_idxs(seq_len, bs) ==
    CurLoop(0, seq_len, bs, [cur |-> << >>, goal |-> << >>])

(***************************************************************************)
(* np.random.choice(np.arange(n), num_positives, replace=False) (line 69): *)
(* the indices a further draw can return.                                  *)
(***************************************************************************)
\* the same draw with replace=True
ChoiceWithReplacement(n, drawn) == 1..n

ChoiceCandidates(n, drawn) ==
    { k \in 1..n : \A m \in 1..Len(drawn) : drawn[m] # k }

\* line 74: (goal_idx[:,0] - current_idx[:,0]) / horison_length
TargetDistance(cur_row, goal_row, seq_len) ==
    Frac(goal_row[1] - cur_row[1], seq_len)

\* line 78: int(num_positives * neg_sampling_factor), truncation towards zero
\* of a non-negative product
NumNegatives(num_positives, f) == (num_positives * f.num) \div f.den

\* a filter on the batch index itself, without the episode quotient
NegCandidatesNoQuotient(cur_b, bs, batch_length) ==
    { j \in 0..(bs - 1) : j # cur_b }

\* a filter that divides only the candidate's index
NegCandidatesRawCur(cur_b, bs, batch_length) ==
    { j \in 0..(bs - 1) : j \div batch_length # cur_b }

\* line 63: [j for j in range(bs) if j//batch_length != cur_idxs[i,1]//batch_length]
NegCandidates(cur_b, bs, batch_length) ==
    { j \in 0..(bs - 1) : j \div batch_length # cur_b \div batch_length }

\* number of distinct values of batch_idx // batch_length over range(batch_size)
EpisodeGroups(c) == Cardinality({ j \div c.bl : j \in 0..(c.bs - 1) })

(***************************************************************************)
(* TemporalLatentDistanceReward.train                                      *)
(***************************************************************************)
TrainConfigs ==
    [H : 1..MaxHorizon, bs : 1..MaxBatchSize, bl : 1..MaxBatchLength,
     np : 0..MaxPositives, fac : Factors]

TrainIdle ==
    /\ tcfg = [H |-> 1, bs |-> 1, bl |-> 1, np |-> 0, fac |-> [num |-> 0, den |-> 1]]
    /\ tpc = "idle"
    /\ current_idxs = << >>
    /\ goal_idxs = << >>
    /\ idx = << >>
    /\ current_idx = << >>
    /\ goal_idx = << >>
    /\ target_distance = << >>
    /\ loss = << >>
    /\ num_negatives = 0
    /\ neg_i = 0
    /\ neg_cur = NoRow
    /\ neg_goal = NoRow
    /\ terr = "none"

\* a slot of torch.empty, a local not bound yet
Empty == "empty"

ExplorerIdle ==
    /\ actor = 0
    /\ critic = << >>
    /\ target_critic = << >>
    /\ epc = "idle"
    /\ horison_length = 0
    /\ init_zs = Empty
    /\ init_hs = Empty
    /\ zs = Empty
    /\ hs = Empty
    /\ t = 0
    /\ actions = Empty
    /\ action_log_probs = Empty
    /\ action_entropys = Empty
    /\ imagined_zs = << >>
    /\ imagined_hs = << >>
    /\ imagined_action_log_probs = << >>
    /\ imagined_action_entropys = << >>
    /\ events = << >>

None == "None"

\* no call made yet
NoRewardCall == [fn |-> "none"]
NoAgentCall == [site |-> "none", mode |-> "none", goal |-> None]

RewardIdle ==
    /\ state2emb = << >>
    /\ distance_estimator = << >>
    /\ reward_call = NoRewardCall

DriverIdle ==
    /\ dcfg = << >>
    /\ dpc = "idle"
    /\ step = 0
    /\ episodes = 0
    /\ goal = None
    /\ done = FALSE
    /\ metrics = FALSE
    /\ agent_call = NoAgentCall
    /\ trained = FALSE
    /\ explorer_synced = FALSE
    /\ achiever_synced = FALSE

TrainInit ==
    /\ ExplorerIdle
    /\ RewardIdle
    /\ DriverIdle
    /\ tcfg \in TrainConfigs
    /\ tpc = "call"
    /\ current_idxs = << >>
    /\ goal_idxs = << >>
    /\ idx = << >>
    /\ current_idx = << >>
    /\ goal_idx = << >>
    /\ target_distance = << >>
    /\ loss = << >>
    /\ num_negatives = 0
    /\ neg_i = 0
    /\ neg_cur = NoRow
    /\ neg_goal = NoRow
    /\ terr = "none"

\* lines 66-69: detach, enumerate the population, enter np.random.choice, which
\* raises ValueError when the sample is larger than the population.
BeginTrain ==
    /\ tpc = "call"
    /\ LET pop == get_future_goal_idxs(tcfg.H, tcfg.bs)
       IN  /\ current_idxs' = pop.cur
           /\ goal_idxs' = pop.goal
           /\ IF tcfg.np > Len(pop.cur)
              THEN /\ tpc' = "error"
                   /\ terr' = "choice_positives"
              ELSE /\ tpc' = "pos_sampling"
                   /\ terr' = terr
    /\ UNCHANGED << explorerVars, rewardVars, driverVars >>
    /\ UNCHANGED << tcfg, idx, current_idx, goal_idx, target_distance, loss,
                    num_negatives, neg_i, neg_cur, neg_goal >>

\* line 69: one draw of the sample without replacement
PosDraw ==
    /\ tpc = "pos_sampling"
    /\ Len(idx) < tcfg.np
    /\ \E k \in ChoiceCandidates(Len(current_idxs), idx) :
           idx' = Append(idx, k)
    /\ UNCHANGED << explorerVars, rewardVars, driverVars >>
    /\ UNCHANGED << tcfg, tpc, current_idxs, goal_idxs, current_idx, goal_idx, target_distance, loss,
                    num_negatives, neg_i, neg_cur, neg_goal, terr >>

\* lines 70-76: gather the sampled rows, build the targets, first mse term
PositiveLoss ==
    /\ tpc = "pos_sampling"
    /\ Len(idx) = tcfg.np
    /\ LET cur_rows == [m \in 1..Len(idx) |-> current_idxs[idx[m]]]
           goal_rows == [m \in 1..Len(idx) |-> goal_idxs[idx[m]]]
       IN  /\ current_idx' = cur_rows
           /\ goal_idx' = goal_rows
           /\ target_distance' =
                  [m \in 1..Len(idx) |->
                      TargetDistance(cur_rows[m], goal_rows[m], tcfg.H)]
           /\ loss' = Append(loss, Len(idx))
    /\ tpc' = "pos_done"
    /\ UNCHANGED << explorerVars, rewardVars, driverVars >>
    /\ UNCHANGED << tcfg, current_idxs, goal_idxs, idx, num_negatives, neg_i, neg_cur, neg_goal, terr >>

\* lines 78-79, 60-61: the number of negatives; the population and the positive
\* index arrays are not read again (line 79 rebinds current_idx and goal_idx),
\* so they are dropped.
BeginNegatives ==
    /\ tpc = "pos_done"
    /\ num_negatives' = NumNegatives(tcfg.np, tcfg.fac)
    /\ current_idxs' = << >>
    /\ goal_idxs' = << >>
    /\ idx' = << >>
    /\ current_idx' = << >>
    /\ goal_idx' = << >>
    /\ target_distance' = << >>
    /\ tpc' = "neg_sampling"
    /\ UNCHANGED << explorerVars, rewardVars, driverVars >>
    /\ UNCHANGED << tcfg, loss, neg_i, neg_cur, neg_goal, terr >>

\* lines 60-63, row neg_i: uniform (time, batch) for cur and goal, then the goal's
\* batch index is replaced by a choice among the candidates; np.random.choice
\* raises ValueError on an empty list.  The rows are independent draws: the model
\* keeps the row just fixed and the number of rows fixed so far.
NegRow ==
    /\ tpc = "neg_sampling"
    /\ neg_i < num_negatives
    /\ \E ct \in 0..(tcfg.H - 1), cb \in 0..(tcfg.bs - 1), gt \in 0..(tcfg.H - 1) :
          /\ neg_cur' = << ct, cb >>
          /\ IF NegCandidates(cb, tcfg.bs, tcfg.bl) = {}
             THEN /\ neg_goal' = NoRow
                  /\ tpc' = "error"
                  /\ terr' = "choice_negatives"
                  /\ neg_i' = neg_i
             ELSE /\ \E gb \in NegCandidates(cb, tcfg.bs, tcfg.bl) :
                         neg_goal' = << gt, gb >>
                  /\ tpc' = tpc
                  /\ terr' = terr
                  /\ neg_i' = neg_i + 1
    /\ UNCHANGED << explorerVars, rewardVars, driverVars >>
    /\ UNCHANGED << tcfg, current_idxs, goal_idxs, idx, current_idx, goal_idx,
                    target_distance, loss, num_negatives >>

\* lines 79-86: targets torch.ones(num_negatives, 1), second mse term, return
NegativeLoss ==
    /\ tpc = "neg_sampling"
    /\ neg_i = num_negatives
    /\ target_distance' = [m \in 1..num_negatives |-> One]
    /\ loss' = Append(loss, num_negatives)
    /\ tpc' = "done"
    /\ UNCHANGED << explorerVars, rewardVars, driverVars >>
    /\ UNCHANGED << tcfg, current_idxs, goal_idxs, idx, current_idx, goal_idx,
                    num_negatives, neg_i, neg_cur, neg_goal, terr >>

(***************************************************************************)
(* Explorer (src/src/model/explorer.py).  Latent values, actions and       *)
(* parameter values are abstract; the actor's outputs are terms that name  *)
(* the state it was queried on.                                            *)
(***************************************************************************)
ZValues == {"z0", "z1"}
HValues == {"h0", "h1"}
ActionValues == {"a0", "a1"}
ParamValues == 0..MaxParam
CriticKeys == {"weight", "bias"}

\* a state_dict of the critic architecture
StateDicts == [CriticKeys -> ParamValues]

\* a copy that takes over one entry only
LoadStateDictPartial(dst, src) == [dst EXCEPT !["weight"] = src["weight"]]

\* nn.Module.load_state_dict (lines 67, 120): every entry of dst is overwritten
\* with a copy of src's value
LoadStateDict(dst, src) == [k \in DOMAIN dst |-> src[k]]

\* an actor queried on the initial state at every step
ActorInputInitial(z, h, z0, h0) == << z0, h0 >>

\* line 91: self.actor(zs.detach(), hs.detach())
ActorInput(z, h, z0, h0) == << z, h >>

\* the log-probability / entropy the actor returns for a query
LogProb(theta, zh, a) == [of |-> "log_prob", theta |-> theta, z |-> zh[1], h |-> zh[2], a |-> a]
Entropy(theta, zh) == [of |-> "entropy", theta |-> theta, z |-> zh[1], h |-> zh[2]]

\* torch.empty(horison_length, ...)
EmptyTensor(n) == [k \in 1..n |-> Empty]

\* __init__ (lines 47-67): actor and critic at their initial values (value 0 of
\* every entry), a fresh target critic overwritten with a copy of the critic
ExplorerInit ==
    /\ TrainIdle
    /\ RewardIdle
    /\ DriverIdle
    /\ actor = 0
    /\ critic = [k \in CriticKeys |-> 0]
    /\ \E fresh \in StateDicts : target_critic = LoadStateDict(fresh, critic)
    /\ epc = "idle"
    /\ horison_length = 0
    /\ init_zs = Empty
    /\ init_hs = Empty
    /\ zs = Empty
    /\ hs = Empty
    /\ t = 0
    /\ actions = Empty
    /\ action_log_probs = Empty
    /\ action_entropys = Empty
    /\ imagined_zs = << >>
    /\ imagined_hs = << >>
    /\ imagined_action_log_probs = << >>
    /\ imagined_action_entropys = << >>
    /\ events = << >>

\* lines 81-90: entry of Explorer.train, allocation of the trajectory
TrainCall ==
    /\ epc = "idle"
    /\ \E z0 \in ZValues, h0 \in HValues, n \in 1..MaxImagineHorizon :
          /\ init_zs' = z0
          /\ init_hs' = h0
          /\ zs' = z0
          /\ hs' = h0
          /\ horison_length' = n
          /\ imagined_zs' = EmptyTensor(n)
          /\ imagined_hs' = EmptyTensor(n)
          /\ imagined_action_log_probs' = EmptyTensor(n)
          /\ imagined_action_entropys' = EmptyTensor(n)
    /\ t' = 0
    /\ events' = << >>
    /\ epc' = "actor"
    /\ UNCHANGED << actions, action_log_probs, action_entropys >>
    /\ UNCHANGED paramVars
    /\ UNCHANGED << trainVars, rewardVars, driverVars >>

\* line 91: the actor samples an action for the state it is given
ActorQuery ==
    /\ epc = "actor"
    /\ t < horison_length
    /\ LET q == ActorInput(zs, hs, init_zs, init_hs)
       IN  \E a \in ActionValues :
              /\ actions' = a
              /\ action_log_probs' = LogProb(actor, q, a)
              /\ action_entropys' = Entropy(actor, q)
              /\ events' = Append(events, [fn |-> "actor", z |-> q[1], h |-> q[2],
                                           action |-> a])
    /\ epc' = "imagine"
    /\ UNCHANGED << horison_length, init_zs, init_hs, zs, hs, t, imagined_zs,
                    imagined_hs, imagined_action_log_probs,
                    imagined_action_entropys >>
    /\ UNCHANGED paramVars
    /\ UNCHANGED << trainVars, rewardVars, driverVars >>

\* lines 93-94: hs, zs = self.world_model.imagine(actions, zs, hs); the world
\* model samples the next latent state
Imagine ==
    /\ epc = "imagine"
    /\ \E nh \in HValues, nz \in ZValues :
          /\ hs' = nh
          /\ zs' = nz
          /\ events' = Append(events, [fn |-> "imagine", action |-> actions,
                                       z |-> zs, h |-> hs,
                                       new_h |-> nh, new_z |-> nz])
    /\ epc' = "store"
    /\ UNCHANGED << horison_length, init_zs, init_hs, t, actions, action_log_probs,
                    action_entropys, imagined_zs, imagined_hs,
                    imagined_action_log_probs, imagined_action_entropys >>
    /\ UNCHANGED paramVars
    /\ UNCHANGED << trainVars, rewardVars, driverVars >>

\* lines 96-99 and the loop increment
Store ==
    /\ epc = "store"
    /\ imagined_hs' = [imagined_hs EXCEPT ![t + 1] = hs]
    /\ imagined_zs' = [imagined_zs EXCEPT ![t + 1] = zs]
    /\ imagined_action_log_probs' =
           [imagined_action_log_probs EXCEPT ![t + 1] = action_log_probs]
    /\ imagined_action_entropys' =
           [imagined_action_entropys EXCEPT ![t + 1] = action_entropys]
    /\ events' = Append(events, [fn |-> "store", index |-> t])
    /\ t' = t + 1
    /\ epc' = IF t + 1 < horison_length THEN "actor" ELSE "losses"
    /\ UNCHANGED << horison_length, init_zs, init_hs, zs, hs, actions,
                    action_log_probs, action_entropys >>
    /\ UNCHANGED paramVars
    /\ UNCHANGED << trainVars, rewardVars, driverVars >>

\* lines 101-117: rewards, target values, lambda target and the two losses are
\* computed from the trajectory; the losses are returned and the locals dropped
ComputeLosses ==
    /\ epc = "losses"
    /\ epc' = "idle"
    /\ horison_length' = 0
    /\ init_zs' = Empty
    /\ init_hs' = Empty
    /\ zs' = Empty
    /\ hs' = Empty
    /\ t' = 0
    /\ actions' = Empty
    /\ action_log_probs' = Empty
    /\ action_entropys' = Empty
    /\ imagined_zs' = << >>
    /\ imagined_hs' = << >>
    /\ imagined_action_log_probs' = << >>
    /\ imagined_action_entropys' = << >>
    /\ events' = << >>
    /\ UNCHANGED paramVars
    /\ UNCHANGED << trainVars, rewardVars, driverVars >>

\* lines 119-120
update_critic ==
    /\ epc = "idle"
    /\ target_critic' = LoadStateDict(target_critic, critic)
    /\ UNCHANGED << actor, critic >>
    /\ UNCHANGED rolloutVars
    /\ UNCHANGED << trainVars, rewardVars, driverVars >>

\* the caller's optimizer step on the online critic, between two calls of the
\* Explorer: some entry of the critic's state_dict gets a new value
OptimizerStep ==
    /\ epc = "idle"
    /\ \E k \in CriticKeys, v \in ParamValues :
          /\ v # critic[k]
          /\ critic' = [critic EXCEPT ![k] = v]
    /\ UNCHANGED << actor, target_critic >>
    /\ UNCHANGED rolloutVars
    /\ UNCHANGED << trainVars, rewardVars, driverVars >>

ExplorerNext ==
    \/ TrainCall
    \/ ActorQuery
    \/ Imagine
    \/ Store
    \/ ComputeLosses
    \/ update_critic
    \/ OptimizerStep

SpecExplorer == ExplorerInit /\ [][ExplorerNext]_vars


(***************************************************************************)
(* TemporalLatentDistanceReward.compute_reward / imagine_compute_reward    *)
(* (achiever_reward.py lines 37-46).  The two networks are tables over     *)
(* abstract embeddings; distances are small integers of either sign.       *)
(***************************************************************************)
EmbValues == {"e0", "e1"}
DistValues == (0 - MaxDistance)..MaxDistance

\* a reward that returns the distance itself
NegateDropped(distance) == distance

\* lines 41, 46: return -distance
Negate(distance) == 0 - distance

\* lines 43-46
compute_reward(z, h, goal_emb) ==
    LET current_emb == state2emb[<< z, h >>]
        distance == distance_estimator[<< current_emb, goal_emb >>]
    IN  Negate(distance)

\* lines 37-41
imagine_compute_reward(current_z, current_h, goal_z, goal_h) ==
    LET current_emb == state2emb[<< current_z, current_h >>]
        goal_emb == state2emb[<< goal_z, goal_h >>]
        distance == distance_estimator[<< current_emb, goal_emb >>]
    IN  Negate(distance)

\* __init__ (lines 23-35): the encoder handed in and a fresh estimator
RewardInit ==
    /\ TrainIdle
    /\ ExplorerIdle
    /\ DriverIdle
    /\ state2emb \in [ZValues \X HValues -> EmbValues]
    /\ distance_estimator \in [EmbValues \X EmbValues -> DistValues]
    /\ reward_call = NoRewardCall

\* a call of compute_reward by the trainer, up to its return statement
CallComputeReward ==
    /\ reward_call = NoRewardCall
    /\ \E z \in ZValues, h \in HValues, g \in EmbValues :
          reward_call' = [fn |-> "compute_reward", z |-> z, h |-> h,
                          goal_emb |-> g, out |-> compute_reward(z, h, g)]
    /\ UNCHANGED << state2emb, distance_estimator >>
    /\ UNCHANGED << trainVars, explorerVars, driverVars >>

\* a call of imagine_compute_reward, up to its return statement
CallImagineComputeReward ==
    /\ reward_call = NoRewardCall
    /\ \E cz \in ZValues, ch \in HValues, gz \in ZValues, gh \in HValues :
          reward_call' = [fn |-> "imagine_compute_reward", current_z |-> cz,
                          current_h |-> ch, goal_z |-> gz, goal_h |-> gh,
                          out |-> imagine_compute_reward(cz, ch, gz, gh)]
    /\ UNCHANGED << state2emb, distance_estimator >>
    /\ UNCHANGED << trainVars, explorerVars, driverVars >>

\* the caller takes the returned reward
RewardReturn ==
    /\ reward_call # NoRewardCall
    /\ reward_call' = NoRewardCall
    /\ UNCHANGED << state2emb, distance_estimator >>
    /\ UNCHANGED << trainVars, explorerVars, driverVars >>

RewardNext ==
    \/ CallComputeReward
    \/ CallImagineComputeReward
    \/ RewardReturn

SpecReward == RewardInit /\ [][RewardNext]_vars

(***************************************************************************)
(* The learning loop of main (src/src/train.py lines 41-93).               *)
(***************************************************************************)
Freqs == 1..MaxFreq

DriverConfigs ==
    [expl_episode_freq : Freqs, update_freq : Freqs, eval_episode_freq : Freqs,
     explorer_slow_critic_update : Freqs, achiever_slow_critic_update : Freqs]

\* Python's truth value of an int, as in "if (step + 1) % n:"
Truthy(x) == x # 0

\* a mode chosen with the two branches swapped
ModeOfSwapped(eps, freq) ==
    IF eps % freq = 0 THEN "achiever" ELSE "explorer"

\* lines 48-51
ModeOf(eps, freq) ==
    IF eps % freq = 0 THEN "explorer" ELSE "achiever"

\* lines 41-45: state at the head of the learning loop
DriverInit ==
    /\ TrainIdle
    /\ ExplorerIdle
    /\ RewardIdle
    /\ dcfg \in DriverConfigs
    /\ dpc = "act"
    /\ step = 0
    /\ episodes = 0
    /\ goal = None
    /\ done = FALSE
    /\ metrics = FALSE
    /\ agent_call = NoAgentCall
    /\ trained = FALSE
    /\ explorer_synced = FALSE
    /\ achiever_synced = FALSE

\* lines 46-56: the mode, the agent's action for the current goal, one
\* environment step with its done signal
Act ==
    /\ dpc = "act"
    /\ step < MaxSteps
    /\ agent_call' = [site |-> "learning", mode |-> ModeOf(episodes, dcfg.expl_episode_freq),
                      goal |-> goal]
    /\ done' \in BOOLEAN
    /\ trained' = FALSE
    /\ explorer_synced' = FALSE
    /\ achiever_synced' = FALSE
    /\ dpc' = "learn"
    /\ UNCHANGED << dcfg, step, episodes, goal, metrics >>
    /\ UNCHANGED << trainVars, explorerVars, rewardVars >>

\* lines 58-65: the three "if (step + 1) % n:" blocks
Learn ==
    /\ dpc = "learn"
    /\ trained' = Truthy((step + 1) % dcfg.update_freq)
    /\ metrics' = (metrics \/ Truthy((step + 1) % dcfg.update_freq))
    /\ explorer_synced' = Truthy((step + 1) % dcfg.explorer_slow_critic_update)
    /\ achiever_synced' = Truthy((step + 1) % dcfg.achiever_slow_critic_update)
    /\ dpc' = "end"
    /\ UNCHANGED << dcfg, step, episodes, goal, done, agent_call >>
    /\ UNCHANGED << trainVars, explorerVars, rewardVars >>

\* line 67 with done false: next iteration
NextStep ==
    /\ dpc = "end"
    /\ ~done
    /\ step' = step + 1
    /\ dpc' = "act"
    /\ UNCHANGED << dcfg, episodes, goal, done, metrics, agent_call, trained,
                    explorer_synced, achiever_synced >>
    /\ UNCHANGED << trainVars, explorerVars, rewardVars >>

\* lines 67-75 with done true: the print of metrics raises NameError when
\* lexa.train never ran; otherwise the episode counter is incremented and a goal
\* is sampled from the replay buffer
EpisodeEnd ==
    /\ dpc = "end"
    /\ done
    /\ IF ~metrics
       THEN /\ dpc' = "error"
            /\ UNCHANGED << step, episodes, goal >>
       ELSE /\ episodes' = episodes + 1
            /\ goal' = "obs"
            /\ IF Truthy((episodes + 1) % dcfg.eval_episode_freq)
               THEN /\ dpc' = "eval"
                    /\ step' = step
               ELSE /\ dpc' = "act"
                    /\ step' = step + 1
    /\ UNCHANGED << dcfg, done, metrics, agent_call, trained, explorer_synced,
                    achiever_synced >>
    /\ UNCHANGED << trainVars, explorerVars, rewardVars >>

\* lines 76-93: the evaluation episodes, the agent in 'achiever' mode on the
\* evaluation environment's goal observation
Evaluate ==
    /\ dpc = "eval"
    /\ agent_call' = [site |-> "eval", mode |-> "achiever", goal |-> "goal_obs"]
    /\ step' = step + 1
    /\ dpc' = "act"
    /\ UNCHANGED << dcfg, episodes, goal, done, metrics, trained, explorer_synced,
                    achiever_synced >>
    /\ UNCHANGED << trainVars, explorerVars, rewardVars >>

DriverNext ==
    \/ Act
    \/ Learn
    \/ NextStep
    \/ EpisodeEnd
    \/ Evaluate

SpecDriver == DriverInit /\ [][DriverNext]_vars

TrainNext ==
    \/ BeginTrain
    \/ PosDraw
    \/ PositiveLoss
    \/ BeginNegatives
    \/ NegRow
    \/ NegativeLoss

SpecTrain == TrainInit /\ [][TrainNext]_vars

(***************************************************************************)
(* Properties of TemporalLatentDistanceReward.train                        *)
(***************************************************************************)
InRange(row, c) == row[1] \in 0..(c.H - 1) /\ row[2] \in 0..(c.bs - 1)

\* C1: every negative pair that negative sampling fixes has cur and goal in
\* different episodes (batch // batch_length differs), both batch indices in
\* [0, batch_size), both time indices in [0, horison_length); when the call
\* returns, every negative target is exactly 1.0.
C1_NegativePairs ==
    /\ (neg_i >= 1 /\ terr = "none") =>
          /\ neg_goal[2] \div tcfg.bl # neg_cur[2] \div tcfg.bl
          /\ InRange(neg_cur, tcfg)
          /\ InRange(neg_goal, tcfg)
    /\ tpc = "done" =>
          /\ Len(target_distance) = num_negatives
          /\ \A m \in 1..Len(target_distance) :
                 target_distance[m].num = 1 /\ target_distance[m].den = 1

\* a call that returned after fixing several negative rows over episodes of
\* two sub-trajectories
C1_Witness ==
    /\ tpc = "done"
    /\ neg_i >= 2
    /\ tcfg.bl = 2
    /\ tcfg.bs = 3
    /\ neg_cur[2] = 2

\* C2: every positive pair, sampled or samplable, has the same batch index on
\* both sides and cur time <= goal time within [0, horison_length); its target
\* is (goal time - cur time) / horison_length, within [0, 1]; and for
\* i <= j <= k the target of (i, k) is >= the target of (i, j).
C2_PositivePairs ==
    LET Times == 0..(tcfg.H - 1)
        Pairs == { << current_idxs[p], goal_idxs[p] >> : p \in 1..Len(current_idxs) }
    IN  /\ (tpc = "pos_sampling" /\ idx = << >>) =>
              /\ Len(goal_idxs) = Len(current_idxs)
              /\ \A p \in 1..Len(current_idxs) :
                     /\ current_idxs[p][2] = goal_idxs[p][2]
                     /\ current_idxs[p][1] <= goal_idxs[p][1]
                     /\ InRange(current_idxs[p], tcfg)
                     /\ InRange(goal_idxs[p], tcfg)
                     /\ FracLeq(Zero, TargetDistance(current_idxs[p], goal_idxs[p], tcfg.H))
                     /\ FracLeq(TargetDistance(current_idxs[p], goal_idxs[p], tcfg.H), One)
              /\ \A i \in Times, j \in Times, k \in Times, b \in 0..(tcfg.bs - 1) :
                     (i <= j /\ j <= k) =>
                         /\ << << i, b >>, << j, b >> >> \in Pairs
                         /\ << << i, b >>, << k, b >> >> \in Pairs
                         /\ TargetDistance(<< i, b >>, << k, b >>, tcfg.H) =
                                Frac(k - i, tcfg.H)
                         /\ FracLeq(TargetDistance(<< i, b >>, << j, b >>, tcfg.H),
                                    TargetDistance(<< i, b >>, << k, b >>, tcfg.H))
        /\ tpc = "pos_done" =>
              \A m \in 1..Len(current_idx) :
                  /\ current_idx[m][2] = goal_idx[m][2]
                  /\ current_idx[m][1] <= goal_idx[m][1]
                  /\ InRange(current_idx[m], tcfg)
                  /\ InRange(goal_idx[m], tcfg)
                  /\ target_distance[m].den = tcfg.H
                  /\ target_distance[m].num = goal_idx[m][1] - current_idx[m][1]
                  /\ FracLeq(Zero, target_distance[m])
                  /\ FracLeq(target_distance[m], One)

\* two positive pairs were sampled, one of them with a goal strictly later
\* than its current step
C2_Witness ==
    /\ tpc = "pos_done"
    /\ Len(current_idx) = 2
    /\ \E m \in 1..2 : goal_idx[m][1] > current_idx[m][1]
    /\ \E m \in 1..2 : target_distance[m] = Frac(1, 2)

\* the n with n <= x < n + 1 for x = num_positives * neg_sampling_factor
IsTruncation(n, num_positives, f) ==
    /\ n * f.den <= num_positives * f.num
    /\ num_positives * f.num < (n + 1) * f.den

\* the end-to-end scenario of the specification
Scenario == [H |-> 5, bs |-> 4, bl |-> 2, np |-> 6, fac |-> [num |-> 1, den |-> 1]]

\* C3: a call that gets through positive sampling has drawn exactly
\* num_positives pairwise distinct pairs out of the
\* horison_length*(horison_length+1)/2 * batch_size enumerated ones, and a call
\* that returns has drawn exactly int(num_positives * neg_sampling_factor)
\* negative pairs; for the scenario H=5, bs=4, bl=2, np=6, factor=1.0 that is
\* 6 out of 60 and 6.
C3_PairCounts ==
    /\ tpc \in {"pos_sampling", "pos_done"} =>
          /\ Len(current_idxs) = ((tcfg.H * (tcfg.H + 1)) \div 2) * tcfg.bs
          /\ Len(idx) <= tcfg.np
    /\ tpc = "pos_done" =>
          /\ Len(idx) = tcfg.np
          /\ Len(current_idx) = tcfg.np
          /\ Len(goal_idx) = tcfg.np
          /\ loss = << tcfg.np >>
          /\ \A m \in 1..Len(idx) : idx[m] \in 1..Len(current_idxs)
          /\ \A m \in 1..Len(idx), n \in 1..Len(idx) :
                 m # n =>
                    /\ idx[m] # idx[n]
                    /\ << current_idx[m], goal_idx[m] >> #
                           << current_idx[n], goal_idx[n] >>
    /\ tpc = "done" =>
          /\ IsTruncation(neg_i, tcfg.np, tcfg.fac)
          /\ IsTruncation(Len(target_distance), tcfg.np, tcfg.fac)
          /\ Len(loss) = 2
          /\ loss[1] = tcfg.np
          /\ IsTruncation(loss[2], tcfg.np, tcfg.fac)
    /\ tpc = "call" =>
          /\ Len(get_future_goal_idxs(Scenario.H, Scenario.bs).cur) = 60
          /\ Len(get_future_goal_idxs(Scenario.H, Scenario.bs).goal) = 60
          /\ NumNegatives(Scenario.np, Scenario.fac) = 6
          /\ \A cb \in 0..(Scenario.bs - 1) :
                 NegCandidates(cb, Scenario.bs, Scenario.bl) # {}

\* a returned call with 2 positives and int(2 * 1.5) = 3 negatives
C3_Witness ==
    /\ tpc = "done"
    /\ loss = << 2, 3 >>

\* a returned call whose product 1 * 0.5 is truncated to no negative at all
C3_WitnessTruncated ==
    /\ tpc = "done"
    /\ loss = << 1, 0 >>

\* C5 (as claimed): with fewer than 2 episode groups in the batch the call
\* fails before any positive pair is sampled or any loss term is computed,
\* and never returns.
C5_ValidatedBeforeContrastive ==
    EpisodeGroups(tcfg) < 2 =>
        /\ idx = << >>
        /\ loss = << >>
        /\ tpc # "done"

\* C8 (as claimed): whenever batch_size // batch_length < 2, the candidate set
\* of the sampled current batch index is empty.
C8_Original ==
    (neg_cur # NoRow /\ tcfg.bs \div tcfg.bl < 2) =>
        NegCandidates(neg_cur[2], tcfg.bs, tcfg.bl) = {}

\* C8 (amended): whenever batch_size <= batch_length (fewer than 2 distinct
\* quotients), the candidate set of the sampled current batch index is empty
\* and the choice raises.
C8_NoCandidates ==
    (neg_cur # NoRow /\ tcfg.bs <= tcfg.bl) =>
        /\ NegCandidates(neg_cur[2], tcfg.bs, tcfg.bl) = {}
        /\ tpc = "error"
        /\ terr = "choice_negatives"

\* negative sampling raised on a batch of two sub-trajectories of one episode
C8_Witness ==
    /\ terr = "choice_negatives"
    /\ tcfg.bs = 2
    /\ tcfg.bl = 2
    /\ neg_cur[2] = 1

(***************************************************************************)
(* Properties of Explorer                                                  *)
(***************************************************************************)
\* C4: update_critic makes the target critic's parameters equal to the online
\* critic's parameters at call time (every entry) and leaves the critic alone;
\* no other step changes the target critic, in particular no step of
\* Explorer.train and no optimizer step on the critic; and no step of
\* Explorer.train changes a parameter of the actor, the critic or the target
\* critic.
C4_TargetCriticIsolation ==
    /\ [][update_critic => (target_critic' = critic /\ critic' = critic)]_vars
    /\ [][(~update_critic) => target_critic' = target_critic]_vars
    /\ [][OptimizerStep => target_critic' = target_critic]_vars
    /\ [][(epc # "idle" \/ epc' # "idle") => paramVars' = paramVars]_vars

\* a rollout has run on a target critic that was synced after the critic had
\* moved in both entries, and the critic was stepped again since
C4_Witness ==
    /\ epc = "losses"
    /\ target_critic = [k \in CriticKeys |-> 1]
    /\ critic = [k \in CriticKeys |-> IF k = "weight" THEN 0 ELSE 1]

\* the events of iteration k (0-based) of the rollout loop
Ev(k, j) == events[3 * k + j]

\* C6: in the rollout, iteration k queries the actor on the state held before
\* the k-th transition (the initial state for k = 0, otherwise the state stored
\* at index k-1), then applies imagine once to that state and the sampled
\* action, and stores at index k the post-transition (z, h) with the
\* log-probability and entropy of that query; the calls alternate, and when the
\* loop ends actor and world model were called horison_length times each and
\* every index was written once.
C6_RolloutOrder ==
    (epc # "idle") =>
        /\ Len(events) = 3 * t + (CASE epc = "imagine" -> 1
                                    [] epc = "store" -> 2
                                    [] OTHER -> 0)
        /\ \A k \in 0..(t - 1) :
              LET pre == IF k = 0 THEN << init_zs, init_hs >>
                         ELSE << imagined_zs[k], imagined_hs[k] >>
              IN  /\ Ev(k, 1).fn = "actor"
                  /\ << Ev(k, 1).z, Ev(k, 1).h >> = pre
                  /\ Ev(k, 2).fn = "imagine"
                  /\ << Ev(k, 2).z, Ev(k, 2).h >> = pre
                  /\ Ev(k, 2).action = Ev(k, 1).action
                  /\ Ev(k, 3) = [fn |-> "store", index |-> k]
                  /\ imagined_zs[k + 1] = Ev(k, 2).new_z
                  /\ imagined_hs[k + 1] = Ev(k, 2).new_h
                  /\ imagined_zs[k + 1] \in ZValues
                  /\ imagined_hs[k + 1] \in HValues
                  /\ imagined_action_log_probs[k + 1] =
                         LogProb(actor, pre, Ev(k, 1).action)
                  /\ imagined_action_entropys[k + 1] = Entropy(actor, pre)
        /\ \A k \in (t + 1)..horison_length :
              /\ imagined_zs[k] = Empty
              /\ imagined_hs[k] = Empty
              /\ imagined_action_log_probs[k] = Empty
              /\ imagined_action_entropys[k] = Empty
        /\ epc = "losses" =>
              /\ t = horison_length
              /\ Cardinality({ n \in 1..Len(events) : events[n].fn = "actor" })
                     = horison_length
              /\ Cardinality({ n \in 1..Len(events) : events[n].fn = "imagine" })
                     = horison_length
              /\ Cardinality({ n \in 1..Len(events) : events[n].fn = "store" })
                     = horison_length

\* a finished two-step rollout whose latent state changed at both transitions
C6_Witness ==
    /\ epc = "losses"
    /\ horison_length = 2
    /\ imagined_zs[1] # init_zs
    /\ imagined_zs[2] # imagined_zs[1]
    /\ imagined_hs[1] # init_hs

(***************************************************************************)
(* Properties of the reward operations                                     *)
(***************************************************************************)
\* the estimator's prediction for the embeddings of the last reward call
PredictedDistance ==
    IF reward_call.fn = "compute_reward"
    THEN distance_estimator[<< state2emb[<< reward_call.z, reward_call.h >>],
                               reward_call.goal_emb >>]
    ELSE distance_estimator[<< state2emb[<< reward_call.current_z, reward_call.current_h >>],
                               state2emb[<< reward_call.goal_z, reward_call.goal_h >>] >>]

\* the value a reward call returned is the negation of the estimator's
\* prediction at the time of the call, hence <= 0 for a non-negative prediction
RewardIsNegatedDistance ==
    reward_call.fn # "none" =>
        /\ reward_call.out + PredictedDistance = 0
        /\ PredictedDistance >= 0 => reward_call.out <= 0

\* C7: compute_reward returns the negation of the estimator's prediction for
\* (state2emb(z, h).mean, goal_emb), imagine_compute_reward the negation of its
\* prediction for the two embedded states, so the reward is <= 0 whenever the
\* prediction is >= 0; and neither call changes the encoder or the estimator.
C7_RewardIsNegatedDistance ==
    /\ []RewardIsNegatedDistance
    /\ [][(CallComputeReward \/ CallImagineComputeReward) =>
              (state2emb' = state2emb /\ distance_estimator' = distance_estimator)]_vars

\* compute_reward returned -1 for a prediction of 1
C7_Witness ==
    /\ reward_call.fn = "compute_reward"
    /\ reward_call.out = 0 - 1
    /\ PredictedDistance = 1

(***************************************************************************)
(* Properties of the learning loop                                         *)
(***************************************************************************)
\* C9 (as claimed): in a learning step, update_critic of the explorer (of the
\* achiever) is invoked exactly when step + 1 is a multiple of that agent's
\* slow_critic_update.
C9_SyncOnMultiples ==
    dpc = "end" =>
        /\ explorer_synced = ((step + 1) % dcfg.explorer_slow_critic_update = 0)
        /\ achiever_synced = ((step + 1) % dcfg.achiever_slow_critic_update = 0)

\* C10: whenever the agent is invoked in 'achiever' mode the goal passed to it
\* is not None: the mode is 'explorer' while episodes = 0 and a goal has been
\* sampled once episodes > 0.
C10_AchieverHasGoal ==
    /\ episodes > 0 => goal # None
    /\ ModeOf(0, dcfg.expl_episode_freq) = "explorer"
    /\ agent_call.site # "none" =>
          /\ agent_call.mode = "achiever" => agent_call.goal # None
          /\ (agent_call.site = "learning" /\ episodes = 0) =>
                 agent_call.mode = "explorer"

\* the learning loop invoked the agent in 'achiever' mode with a sampled goal
C10_Witness ==
    /\ agent_call.site = "learning"
    /\ agent_call.mode = "achiever"
    /\ agent_call.goal = "obs"

=============================================================================
